---- MODULE Spec2Model ----
(***************************************************************************)
(* Model of estnltk/mw_verbs/utils.py: the word indexing helpers           *)
(* (addWordIDs, removeWordIDs, getWordIDrange), the clause grouper         *)
(* (getClausesByClauseIDs) and the WordTemplate rule matcher.              *)
(*                                                                         *)
(* Python values are modelled as follows.                                  *)
(*   - a str is a tuple of one-character strings, "" is << >>;             *)
(*   - a token / an analysis (a dict read by key only) is a function whose *)
(*     DOMAIN is the set of keys that are present;                         *)
(*   - a dict whose iteration order is observable (the two rule dicts, the *)
(*     result of getClausesByClauseIDs) is a record [keys, val]: keys in   *)
(*     insertion order, val the mapping;                                   *)
(*   - a compiled pattern is [lit, eol]: the literal the value must start  *)
(*     with, and whether a trailing "$" requires the value to end there;   *)
(*   - the outcome of a call is [ok, err, ret]: ret is the returned value  *)
(*     when ok, err the raised exception otherwise.                        *)
(***************************************************************************)
EXTENDS Integers, Sequences, FiniteSets, TLC

VARIABLES analysisRules, otherRules, added, tokenArray, jsonSent, last

vars == <<analysisRules, otherRules, added, tokenArray, jsonSent, last>>

(***************************************************************************)
(* Bounds                                                                  *)
(***************************************************************************)
MaxSentLen == 3      \* longest sentence handed to the indexing helpers
MaxAnalyses == 2     \* longest "analysis" list of a token
MaxTokens == 3       \* longest tokenArray handed to the sequence queries

(***************************************************************************)
(* Generic helpers                                                         *)
(***************************************************************************)
EmptyMap == [x \in {} |-> 0]

Put(d, k, v) == [x \in (DOMAIN d) \cup {k} |-> IF x = k THEN v ELSE d[x]]

Del(d, k) == [x \in (DOMAIN d) \ {k} |-> d[x]]

Has(d, k) == k \in DOMAIN d

Returned(v) == [ok |-> TRUE, err |-> "", ret |-> v]

Raised(e) == [ok |-> FALSE, err |-> e, ret |-> << >>]

SeqsUpTo(S, n) == UNION {[1..k -> S] : k \in 0..n}

(***************************************************************************)
(* Indexing word tokens                                                    *)
(***************************************************************************)
\* for i in range(len(jsonSent)): assert ...; jsonSent[i]['wordID'] = i
\* Yields the (partly) mutated sentence and whether the loop ran to its end.
\* variant: an existing wordID is overwritten without being compared
RECURSIVE addWordIDsFromUnchecked(_, _)
addWordIDsFromUnchecked(sent, i) ==
    IF i > Len(sent) THEN [sent |-> sent, out |-> Returned(sent)]
    ELSE addWordIDsFromUnchecked([sent EXCEPT ![i] = Put(sent[i], "wordID", i - 1)], i + 1)

RECURSIVE addWordIDsFrom(_, _)
addWordIDsFrom(sent, i) ==
    IF i > Len(sent) THEN [sent |-> sent, out |-> Returned(sent)]
    ELSE IF Has(sent[i], "wordID") /\ sent[i]["wordID"] # i - 1
         THEN [sent |-> sent, out |-> Raised("AssertionError")]
         ELSE addWordIDsFrom([sent EXCEPT ![i] = Put(sent[i], "wordID", i - 1)], i + 1)

addWordIDs(sent) == addWordIDsFrom(sent, 1)

\* for i in range(len(jsonSent)): del jsonSent[i]['wordID']
RECURSIVE removeWordIDsFrom(_, _)
removeWordIDsFrom(sent, i) ==
    IF i > Len(sent) THEN [sent |-> sent, out |-> Returned(sent)]
    ELSE IF ~Has(sent[i], "wordID")
         THEN [sent |-> sent, out |-> Raised("KeyError")]
         ELSE removeWordIDsFrom([sent EXCEPT ![i] = Del(sent[i], "wordID")], i + 1)

removeWordIDs(sent) == removeWordIDsFrom(sent, 1)

\* tokens = []; for i ...: assert 'wordID' in ...; if a <= id < b: append
\* variant: the interval is closed at its upper end
RECURSIVE getWordIDrangeFromClosed(_, _, _, _, _)
getWordIDrangeFromClosed(a, b, sent, i, tokens) ==
    IF i > Len(sent) THEN Returned(tokens)
    ELSE IF ~Has(sent[i], "wordID") THEN Raised("AssertionError")
         ELSE getWordIDrangeFromClosed(a, b, sent, i + 1,
                 IF a <= sent[i]["wordID"] /\ sent[i]["wordID"] <= b
                 THEN Append(tokens, sent[i]) ELSE tokens)

RECURSIVE getWordIDrangeFrom(_, _, _, _, _)
getWordIDrangeFrom(a, b, sent, i, tokens) ==
    IF i > Len(sent) THEN Returned(tokens)
    ELSE IF ~Has(sent[i], "wordID") THEN Raised("AssertionError")
         ELSE getWordIDrangeFrom(a, b, sent, i + 1,
                 IF a <= sent[i]["wordID"] /\ sent[i]["wordID"] < b
                 THEN Append(tokens, sent[i]) ELSE tokens)

getWordIDrange(a, b, sent) == getWordIDrangeFrom(a, b, sent, 1, << >>)

\* the second loop of getClausesByClauseIDs: clauses[clauseId].append(token)
\* variant: a token is put in front of its group
RECURSIVE groupFromPrepending(_, _, _)
groupFromPrepending(sent, i, clauses) ==
    IF i > Len(sent) THEN clauses
    ELSE LET clauseId == sent[i]["clauseID"]
             opened == IF clauseId \in DOMAIN clauses.val
                       THEN clauses
                       ELSE [keys |-> Append(clauses.keys, clauseId),
                             val  |-> Put(clauses.val, clauseId, << >>)]
         IN groupFromPrepending(sent, i + 1,
                [opened EXCEPT !.val[clauseId] = <<sent[i]>> \o @])

RECURSIVE groupFrom(_, _, _)
groupFrom(sent, i, clauses) ==
    IF i > Len(sent) THEN clauses
    ELSE LET clauseId == sent[i]["clauseID"]
             opened == IF clauseId \in DOMAIN clauses.val
                       THEN clauses
                       ELSE [keys |-> Append(clauses.keys, clauseId),
                             val  |-> Put(clauses.val, clauseId, << >>)]
         IN groupFrom(sent, i + 1,
                [opened EXCEPT !.val[clauseId] = Append(@, sent[i])])

getClausesByClauseIDs(sent) ==
    IF \E i \in 1..Len(sent) : ~Has(sent[i], "clauseID")
    THEN Raised("AssertionError")
    ELSE Returned(groupFrom(sent, 1, [keys |-> << >>, val |-> EmptyMap]))

(***************************************************************************)
(* WordTemplate: the rule registry                                         *)
(***************************************************************************)
analysisFields == {"root", "partofspeech", "ending", "form", "clitic", "lemma"}

\* analysisRules = None / otherRules = None (class attributes)
None == [none |-> TRUE, keys |-> << >>, val |-> EmptyMap]

\* dict()
dict == [none |-> FALSE, keys |-> << >>, val |-> EmptyMap]

\* variant: an existing key keeps its old value
SetItemKeepFirst(d, k, v) ==
    [none |-> FALSE,
     keys |-> IF k \in DOMAIN d.val THEN d.keys ELSE Append(d.keys, k),
     val  |-> IF k \in DOMAIN d.val THEN d.val ELSE Put(d.val, k, v)]

\* d[k] = v on a dict that keeps insertion order: a new key goes last, an
\* existing key keeps its place.
SetItem(d, k, v) ==
    [none |-> FALSE,
     keys |-> IF k \in DOMAIN d.val THEN d.keys ELSE Append(d.keys, k),
     val  |-> Put(d.val, k, v)]

\* re.compile on the pattern sources used here: a literal, optionally
\* followed by "$"; an unbalanced "(" is rejected (re.error).
compile(src) ==
    IF \E i \in 1..Len(src) : src[i] = "("
    THEN Raised("re.error")
    ELSE IF Len(src) > 0 /\ src[Len(src)] = "$"
         THEN Returned([lit |-> SubSeq(src, 1, Len(src) - 1), eol |-> TRUE])
         ELSE Returned([lit |-> src, eol |-> FALSE])

\* compiled.match(value) != None: the pattern is tried at position 0 only,
\* and the value may continue after the match unless "$" forbids it.
reMatch(compiled, value) ==
    /\ Len(value) >= Len(compiled.lit)
    /\ SubSeq(value, 1, Len(compiled.lit)) = compiled.lit
    /\ (compiled.eol => Len(value) = Len(compiled.lit))

\* addRule(field, regExpPattern): the two rule dicts after the call, and
\* the outcome of the call.
addRule(aRules, oRules, field, regExpPattern) ==
    LET compiled == compile(regExpPattern) IN
    IF ~compiled.ok
    THEN [analysisRules |-> aRules, otherRules |-> oRules, out |-> compiled]
    ELSE IF field \in analysisFields
         THEN [analysisRules |-> SetItem(IF aRules.none THEN dict ELSE aRules,
                                         field, compiled.ret),
               otherRules |-> oRules, out |-> Returned(<< >>)]
         ELSE [analysisRules |-> aRules,
               otherRules |-> SetItem(IF oRules.none THEN dict ELSE oRules,
                                      field, compiled.ret),
               out |-> Returned(<< >>)]

\* __init__(newRules): for ruleKey in newRules: self.addRule(ruleKey, ...)
\* newRules is given as the sequence of its (key, pattern) items.
RECURSIVE constructFrom(_, _, _, _)
constructFrom(aRules, oRules, newRules, i) ==
    IF i > Len(newRules) THEN [analysisRules |-> aRules, otherRules |-> oRules]
    ELSE LET r == addRule(aRules, oRules, newRules[i][1], newRules[i][2])
         IN constructFrom(r.analysisRules, r.otherRules, newRules, i + 1)

WordTemplate(newRules) == constructFrom(None, None, newRules, 1)

(***************************************************************************)
(* WordTemplate: matching a single token                                   *)
(***************************************************************************)
all(bools) == \A i \in 1..Len(bools) : bools[i]

any(bools) == \E i \in 1..Len(bools) : bools[i]

\* variant: a field missing from the token is read as the empty string
otherMatchesOfLenient(oRules, tokenJson) ==
    [i \in 1..Len(oRules.keys) |->
        LET field == oRules.keys[i] IN
        reMatch(oRules.val[field],
                IF Has(tokenJson, field) THEN tokenJson[field] ELSE << >>)]

\* otherMatches: one entry per token-scoped rule, in dict order
otherMatchesOf(oRules, tokenJson) ==
    [i \in 1..Len(oRules.keys) |->
        LET field == oRules.keys[i] IN
        Has(tokenJson, field) /\ reMatch(oRules.val[field], tokenJson[field])]

\* value = analysis[field] if field in analysis else ""
valueOf(analysis, field) == IF Has(analysis, field) THEN analysis[field] ELSE << >>

\* the inner loop of matches(): stops at the first rule that fails
RECURSIVE matchesUntilBreak(_, _, _, _)
matchesUntilBreak(aRules, analysis, i, matches) ==
    IF i > Len(aRules.keys) THEN matches
    ELSE LET field == aRules.keys[i]
             match == reMatch(aRules.val[field], valueOf(analysis, field))
         IN IF ~match THEN Append(matches, match)
            ELSE matchesUntilBreak(aRules, analysis, i + 1, Append(matches, match))

\* the inner loop of matchingAnalyses(): evaluates every rule
matchesOfAllRules(aRules, analysis) ==
    [i \in 1..Len(aRules.keys) |->
        LET field == aRules.keys[i] IN
        reMatch(aRules.val[field], valueOf(analysis, field))]

\* variant: every analysis has to satisfy the rules
matchesUniversal(aRules, oRules, tokenJson) ==
    LET otherMatches == otherMatchesOf(oRules, tokenJson)
        analysisPart ==
            IF ~aRules.none
            THEN IF ~Has(tokenJson, "analysis") THEN Raised("AssertionError")
                 ELSE LET totalMatches ==
                            [k \in 1..Len(tokenJson["analysis"]) |->
                               all(matchesUntilBreak(aRules, tokenJson["analysis"][k],
                                                     1, << >>))]
                      IN Returned(Len(totalMatches) > 0 /\ all(totalMatches))
            ELSE Returned(FALSE)
    IN IF ~oRules.none
       THEN IF Len(otherMatches) = 0 \/ ~all(otherMatches) THEN Returned(FALSE)
            ELSE IF aRules.none /\ all(otherMatches) THEN Returned(TRUE)
                 ELSE analysisPart
       ELSE analysisPart

matches(aRules, oRules, tokenJson) ==
    LET otherMatches == otherMatchesOf(oRules, tokenJson)
        analysisPart ==
            IF ~aRules.none
            THEN IF ~Has(tokenJson, "analysis") THEN Raised("AssertionError")
                 ELSE LET totalMatches ==
                            [k \in 1..Len(tokenJson["analysis"]) |->
                               all(matchesUntilBreak(aRules, tokenJson["analysis"][k],
                                                     1, << >>))]
                      IN Returned(any(totalMatches))
            ELSE Returned(FALSE)
    IN IF ~oRules.none
       THEN IF Len(otherMatches) = 0 \/ ~all(otherMatches) THEN Returned(FALSE)
            ELSE IF aRules.none /\ all(otherMatches) THEN Returned(TRUE)
                 ELSE analysisPart
       ELSE analysisPart

\* variant: an analysis equal to one already collected is dropped
RECURSIVE collectAnalysesDistinct(_, _, _, _)
collectAnalysesDistinct(aRules, analyses, k, matchingResults) ==
    IF k > Len(analyses) THEN matchingResults
    ELSE LET ms == matchesOfAllRules(aRules, analyses[k])
         IN collectAnalysesDistinct(aRules, analyses, k + 1,
                IF /\ Len(ms) > 0 /\ all(ms)
                   /\ \A j \in 1..Len(matchingResults) : matchingResults[j] # analyses[k]
                THEN Append(matchingResults, analyses[k]) ELSE matchingResults)

\* the loop "if matches and all(matches): matchingResults.append(analysis)"
RECURSIVE collectAnalyses(_, _, _, _)
collectAnalyses(aRules, analyses, k, matchingResults) ==
    IF k > Len(analyses) THEN matchingResults
    ELSE LET ms == matchesOfAllRules(aRules, analyses[k])
         IN collectAnalyses(aRules, analyses, k + 1,
                IF Len(ms) > 0 /\ all(ms)
                THEN Append(matchingResults, analyses[k]) ELSE matchingResults)

\* variant: a token without "analysis" yields no matching analyses
matchingAnalysesTolerant(aRules, oRules, tokenJson) ==
    LET otherMatches == otherMatchesOf(oRules, tokenJson)
        analysisPart ==
            IF ~aRules.none
            THEN IF ~Has(tokenJson, "analysis") THEN Returned(<< >>)
                 ELSE Returned(collectAnalyses(aRules, tokenJson["analysis"], 1, << >>))
            ELSE Returned(<< >>)
    IN IF ~oRules.none /\ (Len(otherMatches) = 0 \/ ~all(otherMatches))
       THEN Returned(<< >>)
       ELSE analysisPart

matchingAnalyses(aRules, oRules, tokenJson) ==
    LET otherMatches == otherMatchesOf(oRules, tokenJson)
        analysisPart ==
            IF ~aRules.none
            THEN IF ~Has(tokenJson, "analysis") THEN Raised("AssertionError")
                 ELSE Returned(collectAnalyses(aRules, tokenJson["analysis"], 1, << >>))
            ELSE Returned(<< >>)
    IN IF ~oRules.none /\ (Len(otherMatches) = 0 \/ ~all(otherMatches))
       THEN Returned(<< >>)
       ELSE analysisPart

\* variant: the position of the last element equal to x
indexOfLast(list, x) == (CHOOSE i \in 1..Len(list) :
                            /\ list[i] = x
                            /\ \A j \in (i + 1)..Len(list) : list[j] # x) - 1

\* list.index(x): zero-based position of the first element equal to x
index(list, x) == (CHOOSE i \in 1..Len(list) :
                      /\ list[i] = x
                      /\ \A j \in 1..(i - 1) : list[j] # x) - 1

matchingAnalyseIndexes(aRules, oRules, tokenJson) ==
    LET matchingResults == matchingAnalyses(aRules, oRules, tokenJson) IN
    IF ~matchingResults.ok THEN matchingResults
    ELSE IF Len(matchingResults.ret) > 0
         THEN Returned([j \in 1..Len(matchingResults.ret) |->
                           index(tokenJson["analysis"], matchingResults.ret[j])])
         ELSE matchingResults

(***************************************************************************)
(* WordTemplate: matches from a list of tokens                             *)
(***************************************************************************)
\* variant: positions are counted from one
RECURSIVE matchingPositionsFromOne(_, _, _, _, _)
matchingPositionsFromOne(aRules, oRules, tokens, i, matchingPos) ==
    IF i > Len(tokens) THEN Returned(matchingPos)
    ELSE LET m == matches(aRules, oRules, tokens[i]) IN
         IF ~m.ok THEN m
         ELSE matchingPositionsFromOne(aRules, oRules, tokens, i + 1,
                 IF m.ret THEN Append(matchingPos, i) ELSE matchingPos)

RECURSIVE matchingPositionsFrom(_, _, _, _, _)
matchingPositionsFrom(aRules, oRules, tokens, i, matchingPos) ==
    IF i > Len(tokens) THEN Returned(matchingPos)
    ELSE LET m == matches(aRules, oRules, tokens[i]) IN
         IF ~m.ok THEN m
         ELSE matchingPositionsFrom(aRules, oRules, tokens, i + 1,
                 IF m.ret THEN Append(matchingPos, i - 1) ELSE matchingPos)

matchingPositions(aRules, oRules, tokens) ==
    matchingPositionsFrom(aRules, oRules, tokens, 1, << >>)

RECURSIVE matchingTokensFrom(_, _, _, _, _)
matchingTokensFrom(aRules, oRules, tokens, i, matchingTok) ==
    IF i > Len(tokens) THEN Returned(matchingTok)
    ELSE LET m == matches(aRules, oRules, tokens[i]) IN
         IF ~m.ok THEN m
         ELSE matchingTokensFrom(aRules, oRules, tokens, i + 1,
                 IF m.ret THEN Append(matchingTok, tokens[i]) ELSE matchingTok)

matchingTokens(aRules, oRules, tokens) ==
    matchingTokensFrom(aRules, oRules, tokens, 1, << >>)

(***************************************************************************)
(* Inputs                                                                  *)
(***************************************************************************)
\* every dict with keys among DOMAIN fv and, under key f, a value of fv[f]
PartialRecords(fv) ==
    UNION {{g \in [D -> UNION {fv[f] : f \in D}] : \A f \in D : g[f] \in fv[f]} :
           D \in SUBSET (DOMAIN fv)}

AB == <<"a", "b">>

\* sentences of the indexing helpers: tokens with optional wordID / clauseID
IndexTokens == PartialRecords([wordID |-> {0, 1, 2}, clauseID |-> {1, 2}])

Sentences == SeqsUpTo(IndexTokens, MaxSentLen)

\* the interval ends handed to getWordIDrange
Lows == {0, 1}

Highs == 0..MaxSentLen

\* pattern sources: "a", "$" and the malformed "("
PatternSources == {<<"a">>, <<"$">>, <<"(">>}

ValidSources == {src \in PatternSources : compile(src).ok}

\* the fields rules are registered for while matching
MatchFields == {"partofspeech", "root", "text", "label"}

\* the fields rules are registered for while querying sequences
SeqFields == {"partofspeech", "text"}

\* the fields rules are registered for in the registry specification
RegistryFields == analysisFields \cup {"text", "label"}

AnalysisEntries == PartialRecords([partofspeech |-> {AB}, root |-> {AB}])

\* tokens without analyses: a text ("" or "ab") and an optional label
TokenBases == {t \in PartialRecords([text |-> {<< >>, AB}, label |-> {AB}]) :
                 Has(t, "text")}

Tokens == TokenBases \cup
          {Put(t, "analysis", as) : t \in TokenBases,
                                    as \in SeqsUpTo(AnalysisEntries, MaxAnalyses)}

\* the tokens that sequences are built of: an optional text, and no
\* "analysis" or at most one analysis with an optional partofspeech
ArrayTokenBases == PartialRecords([text |-> {AB}])

ArrayTokens == ArrayTokenBases \cup
               {Put(t, "analysis", as) :
                   t \in ArrayTokenBases,
                   as \in SeqsUpTo(PartialRecords([partofspeech |-> {AB}]), 1)}

TokenArrays == SeqsUpTo(ArrayTokens, MaxTokens)

\* newRules of the constructor: up to two items with distinct keys
RuleItems(fields) == fields \X ValidSources

NewRules(fields) ==
    {<< >>} \cup {<<r>> : r \in RuleItems(fields)}
            \cup {rs \in [1..2 -> RuleItems(fields)] : rs[1][1] # rs[2][1]}

\* the registry as one mapping field -> compiled pattern
Registered(aRules, oRules) ==
    [f \in (DOMAIN aRules.val) \cup (DOMAIN oRules.val) |->
        IF f \in DOMAIN aRules.val THEN aRules.val[f] ELSE oRules.val[f]]

(***************************************************************************)
(* State machine                                                           *)
(*   analysisRules, otherRules  the WordTemplate instance                  *)
(*   added       history: the pattern of the latest successful addRule of  *)
(*               each field                                                *)
(*   tokenArray  the tokens the matcher is queried with                    *)
(*   jsonSent    the sentence the indexing helpers work on (mutated)       *)
(*   last        the latest call: [op, arg, out]                           *)
(***************************************************************************)
NoCall == [op |-> "none", arg |-> << >>, out |-> Returned(<< >>)]

InitTemplate(fields) ==
    \E newRules \in NewRules(fields) :
        LET t == WordTemplate(newRules) IN
        /\ analysisRules = t.analysisRules
        /\ otherRules = t.otherRules
        /\ added = [f \in {newRules[i][1] : i \in 1..Len(newRules)} |->
                       LET i == CHOOSE i \in 1..Len(newRules) : newRules[i][1] = f
                       IN compile(newRules[i][2]).ret]

InitIndex ==
    /\ analysisRules = None
    /\ otherRules = None
    /\ added = EmptyMap
    /\ tokenArray = << >>
    /\ jsonSent \in Sentences
    /\ last = NoCall

InitMatch ==
    /\ InitTemplate(MatchFields)
    /\ tokenArray \in {<<t>> : t \in Tokens}
    /\ jsonSent = << >>
    /\ last = NoCall

InitSeq ==
    /\ InitTemplate(SeqFields)
    /\ tokenArray \in TokenArrays
    /\ jsonSent = << >>
    /\ last = NoCall

InitRules ==
    /\ InitTemplate(RegistryFields)
    /\ tokenArray = << >>
    /\ jsonSent = << >>
    /\ last = NoCall

AddWordIDs ==
    LET r == addWordIDs(jsonSent) IN
    /\ jsonSent' = r.sent
    /\ last' = [op |-> "addWordIDs", arg |-> <<jsonSent>>, out |-> r.out]
    /\ UNCHANGED <<analysisRules, otherRules, added, tokenArray>>

RemoveWordIDs ==
    LET r == removeWordIDs(jsonSent) IN
    /\ jsonSent' = r.sent
    /\ last' = [op |-> "removeWordIDs", arg |-> <<jsonSent>>, out |-> r.out]
    /\ UNCHANGED <<analysisRules, otherRules, added, tokenArray>>

GetWordIDrange(a, b) ==
    /\ last' = [op |-> "getWordIDrange", arg |-> <<a, b>>,
                out |-> getWordIDrange(a, b, jsonSent)]
    /\ UNCHANGED <<analysisRules, otherRules, added, tokenArray, jsonSent>>

GetClausesByClauseIDs ==
    /\ last' = [op |-> "getClausesByClauseIDs", arg |-> << >>,
                out |-> getClausesByClauseIDs(jsonSent)]
    /\ UNCHANGED <<analysisRules, otherRules, added, tokenArray, jsonSent>>

AddRule(field, regExpPattern) ==
    LET r == addRule(analysisRules, otherRules, field, regExpPattern) IN
    /\ analysisRules' = r.analysisRules
    /\ otherRules' = r.otherRules
    /\ added' = IF r.out.ok THEN Put(added, field, compile(regExpPattern).ret)
                ELSE added
    /\ last' = [op |-> "addRule", arg |-> <<field, regExpPattern>>, out |-> r.out]
    /\ UNCHANGED <<tokenArray, jsonSent>>

Matches(i) ==
    /\ last' = [op |-> "matches", arg |-> <<i>>,
                out |-> matches(analysisRules, otherRules, tokenArray[i])]
    /\ UNCHANGED <<analysisRules, otherRules, added, tokenArray, jsonSent>>

MatchingAnalyses(i) ==
    /\ last' = [op |-> "matchingAnalyses", arg |-> <<i>>,
                out |-> matchingAnalyses(analysisRules, otherRules, tokenArray[i])]
    /\ UNCHANGED <<analysisRules, otherRules, added, tokenArray, jsonSent>>

MatchingAnalyseIndexes(i) ==
    /\ last' = [op |-> "matchingAnalyseIndexes", arg |-> <<i>>,
                out |-> matchingAnalyseIndexes(analysisRules, otherRules, tokenArray[i])]
    /\ UNCHANGED <<analysisRules, otherRules, added, tokenArray, jsonSent>>

MatchingPositions ==
    /\ last' = [op |-> "matchingPositions", arg |-> << >>,
                out |-> matchingPositions(analysisRules, otherRules, tokenArray)]
    /\ UNCHANGED <<analysisRules, otherRules, added, tokenArray, jsonSent>>

MatchingTokens ==
    /\ last' = [op |-> "matchingTokens", arg |-> << >>,
                out |-> matchingTokens(analysisRules, otherRules, tokenArray)]
    /\ UNCHANGED <<analysisRules, otherRules, added, tokenArray, jsonSent>>

NextIndex ==
    \/ AddWordIDs
    \/ RemoveWordIDs
    \/ \E a \in Lows, b \in Highs : GetWordIDrange(a, b)
    \/ GetClausesByClauseIDs

NextMatch ==
    \/ \E field \in MatchFields, src \in ValidSources : AddRule(field, src)
    \/ \E i \in 1..Len(tokenArray) : Matches(i)
    \/ \E i \in 1..Len(tokenArray) : MatchingAnalyses(i)
    \/ \E i \in 1..Len(tokenArray) : MatchingAnalyseIndexes(i)

NextSeq ==
    \/ \E field \in SeqFields, src \in ValidSources : AddRule(field, src)
    \/ MatchingPositions
    \/ MatchingTokens

\* the registry specification registers at most MaxRules distinct fields
MaxRules == 3

NextRules ==
    \E field \in RegistryFields, src \in PatternSources :
        /\ \/ field \in DOMAIN added
           \/ Cardinality(DOMAIN added) < MaxRules
        /\ AddRule(field, src)

Spec == InitMatch /\ [][NextMatch]_vars

SpecSeq == InitSeq /\ [][NextSeq]_vars

SpecIndex == InitIndex /\ [][NextIndex]_vars

SpecRules == InitRules /\ [][NextRules]_vars

(***************************************************************************)
(* Properties of the indexing helpers (SpecIndex)                          *)
(***************************************************************************)
\* every wordID that is present equals the position of its token
ConsistentIDs(sent) ==
    \A i \in 1..Len(sent) : Has(sent[i], "wordID") => sent[i]["wordID"] = i - 1

\* every token carries its position as wordID
Indexed(sent) ==
    \A i \in 1..Len(sent) : Has(sent[i], "wordID") /\ sent[i]["wordID"] = i - 1

\* C7: addWordIDs on a sentence whose existing wordIDs (if any) equal the
\* positions succeeds and leaves wordID = i on token i, the other fields
\* untouched; on a sentence with a wordID that differs from its position it
\* fails with the assertion error; and a call that directly follows a
\* successful call succeeds and changes no token.
C7_AddWordIDs ==
    /\ [](last.op = "addWordIDs" =>
            LET pre == last.arg[1] IN
            IF ConsistentIDs(pre)
            THEN /\ last.out.ok
                 /\ last.out.ret = jsonSent
                 /\ Len(jsonSent) = Len(pre)
                 /\ Indexed(jsonSent)
                 /\ \A i \in 1..Len(pre) : Del(jsonSent[i], "wordID") = Del(pre[i], "wordID")
            ELSE /\ ~last.out.ok
                 /\ last.out.err = "AssertionError")
    /\ [][(last.op = "addWordIDs" /\ last.out.ok /\ last'.op = "addWordIDs")
             => (last'.out.ok /\ jsonSent' = jsonSent)]_vars

\* a second addWordIDs call on a sentence of at least two tokens
C7_Witness ==
    /\ last.op = "addWordIDs"
    /\ last.out.ok
    /\ last.arg[1] = jsonSent
    /\ Len(jsonSent) >= 2

InRange(a, b, t) == a <= t["wordID"] /\ t["wordID"] < b

\* C8: on a sentence whose tokens all carry a wordID, getWordIDrange(a, b)
\* returns exactly the tokens with a <= wordID < b in input order, nothing
\* when a = b, and the whole sentence for (0, N) when the sentence is
\* indexed; when some token lacks wordID it fails whatever a and b are.
C8_GetWordIDrange ==
    last.op = "getWordIDrange" =>
        LET a == last.arg[1]
            b == last.arg[2]
            Test(t) == InRange(a, b, t)
        IN IF \A i \in 1..Len(jsonSent) : Has(jsonSent[i], "wordID")
           THEN /\ last.out.ok
                /\ last.out.ret = SelectSeq(jsonSent, Test)
                /\ a = b => last.out.ret = << >>
                /\ (Indexed(jsonSent) /\ a = 0 /\ b = Len(jsonSent))
                      => last.out.ret = jsonSent
           ELSE /\ ~last.out.ok
                /\ last.out.err = "AssertionError"

\* a proper sub-range of an indexed sentence: some tokens in, some out
C8_Witness ==
    /\ last.op = "getWordIDrange"
    /\ last.out.ok
    /\ Indexed(jsonSent)
    /\ Len(last.out.ret) >= 1
    /\ Len(last.out.ret) < Len(jsonSent)
    /\ last.arg[2] < Len(jsonSent)

FirstPos(sent, c) ==
    CHOOSE i \in 1..Len(sent) :
        /\ sent[i]["clauseID"] = c
        /\ \A j \in 1..(i - 1) : sent[j]["clauseID"] # c

RECURSIVE SumLen(_, _, _)
SumLen(keys, val, i) ==
    IF i > Len(keys) THEN 0 ELSE Len(val[keys[i]]) + SumLen(keys, val, i + 1)

\* C9: on a sentence whose tokens all carry a clauseID,
\* getClausesByClauseIDs returns one group per clauseID of the sentence,
\* keyed in first-occurrence order; the group of c holds exactly the tokens
\* with clauseID c in sentence order, so no group is empty and every token
\* is in exactly one group; the sentence is not changed; when some token
\* lacks clauseID the call fails.
C9_GetClauses ==
    /\ [](last.op = "getClausesByClauseIDs" =>
            IF \A i \in 1..Len(jsonSent) : Has(jsonSent[i], "clauseID")
            THEN LET c == last.out.ret IN
                 /\ last.out.ok
                 /\ \A p, q \in 1..Len(c.keys) : p # q => c.keys[p] # c.keys[q]
                 /\ DOMAIN c.val = {c.keys[p] : p \in 1..Len(c.keys)}
                 /\ DOMAIN c.val = {jsonSent[i]["clauseID"] : i \in 1..Len(jsonSent)}
                 /\ \A k \in DOMAIN c.val :
                       LET Test(t) == t["clauseID"] = k IN
                       /\ c.val[k] = SelectSeq(jsonSent, Test)
                       /\ Len(c.val[k]) > 0
                 /\ SumLen(c.keys, c.val, 1) = Len(jsonSent)
                 /\ \A p, q \in 1..Len(c.keys) :
                       p < q => FirstPos(jsonSent, c.keys[p]) < FirstPos(jsonSent, c.keys[q])
            ELSE /\ ~last.out.ok
                 /\ last.out.err = "AssertionError")
    /\ [][last'.op = "getClausesByClauseIDs" => jsonSent' = jsonSent]_vars

\* interleaved clauses whose first occurrences are not in sorted order
C9_Witness ==
    /\ last.op = "getClausesByClauseIDs"
    /\ last.out.ok
    /\ Len(jsonSent) = 3
    /\ last.out.ret.keys = <<2, 1>>
    /\ Len(last.out.ret.val[2]) = 2

(***************************************************************************)
(* Properties of the rule registry (SpecRules)                             *)
(***************************************************************************)
KeySet(d) == {d.keys[i] : i \in 1..Len(d.keys)}

\* C5: the registered fields are exactly the fields added so far, each
\* with the pattern of its latest successful addRule; a field is in the
\* analysis-scoped dict iff it is one of root, partofspeech, ending, form,
\* clitic, lemma, and in the token-scoped dict otherwise, never in both; a
\* dict exists (is not None) iff it holds a rule; no step removes a field,
\* and a rejected pattern changes nothing.
C5_Registry ==
    /\ [](/\ KeySet(analysisRules) \cup KeySet(otherRules) = DOMAIN added
          /\ KeySet(analysisRules) \cap KeySet(otherRules) = {}
          /\ \A f \in DOMAIN added :
                /\ f \in KeySet(analysisRules) <=>
                      f \in {"root", "partofspeech", "ending", "form", "clitic", "lemma"}
                /\ f \in KeySet(analysisRules) => analysisRules.val[f] = added[f]
                /\ f \in KeySet(otherRules) => otherRules.val[f] = added[f]
          /\ analysisRules.none <=> KeySet(analysisRules) = {}
          /\ otherRules.none <=> KeySet(otherRules) = {})
    /\ [][/\ KeySet(analysisRules) \subseteq KeySet(analysisRules')
          /\ KeySet(otherRules) \subseteq KeySet(otherRules')
          /\ (last'.op = "addRule" /\ ~last'.out.ok)
                => (analysisRules' = analysisRules /\ otherRules' = otherRules)]_vars

\* a rule was overwritten (its field is not the newest key of its dict) by a
\* pattern different from another registered one, both dicts being in use
C5_Witness ==
    /\ last.op = "addRule"
    /\ last.out.ok
    /\ Len(otherRules.keys) >= 1
    /\ Len(analysisRules.keys) >= 2
    /\ last.arg[1] = analysisRules.keys[1]
    /\ analysisRules.val[analysisRules.keys[1]] # analysisRules.val[analysisRules.keys[2]]

(***************************************************************************)
(* Properties of single-token matching (Spec)                              *)
(***************************************************************************)
\* the token of the latest single-token query
Queried == tokenArray[last.arg[1]]

HasAnalysisRules == KeySet(analysisRules) # {}

HasTokenRules == KeySet(otherRules) # {}

\* every token-scoped rule finds its field on the token and matches it
TokenRulesPass(tok) ==
    \A f \in KeySet(otherRules) : Has(tok, f) /\ reMatch(otherRules.val[f], tok[f])

\* the analysis entry satisfies every analysis-scoped rule, a field that is
\* absent being matched as the empty string
EntrySatisfies(entry) ==
    \A f \in KeySet(analysisRules) :
        reMatch(analysisRules.val[f], IF Has(entry, f) THEN entry[f] ELSE << >>)

\* C1: with an analysis-scoped rule registered, the token-scoped rules
\* passing and the token carrying "analysis", matches returns whether some
\* analysis entry satisfies every analysis-scoped rule (so FALSE for an
\* empty analysis list).
C1_Existential ==
    (/\ last.op = "matches"
     /\ HasAnalysisRules
     /\ TokenRulesPass(Queried)
     /\ Has(Queried, "analysis"))
    => /\ last.out.ok
       /\ last.out.ret = (\E k \in 1..Len(Queried["analysis"]) :
                             EntrySatisfies(Queried["analysis"][k]))
       /\ Queried["analysis"] = << >> => last.out.ret = FALSE

\* two rules, two analyses, only the second one satisfies both rules
C1_Witness ==
    /\ last.op = "matches"
    /\ Len(analysisRules.keys) = 2
    /\ TokenRulesPass(Queried)
    /\ Has(Queried, "analysis")
    /\ Len(Queried["analysis"]) = 2
    /\ ~EntrySatisfies(Queried["analysis"][1])
    /\ EntrySatisfies(Queried["analysis"][2])
    /\ last.out.ret = TRUE

\* C2: when a token-scoped rule fails, matches returns FALSE whatever the
\* analysis-scoped rules and the analyses are; with token-scoped rules and
\* no analysis-scoped rule it returns the conjunction of the token-scoped
\* rules.
C2_TokenGate ==
    last.op = "matches" =>
        /\ ~TokenRulesPass(Queried) => (last.out.ok /\ last.out.ret = FALSE)
        /\ (HasTokenRules /\ ~HasAnalysisRules)
              => (last.out.ok /\ last.out.ret = TokenRulesPass(Queried))

\* one of two token-scoped rules fails although an analysis satisfies the
\* analysis-scoped rules
C2_Witness ==
    /\ last.op = "matches"
    /\ Len(otherRules.keys) = 2
    /\ \E f \in KeySet(otherRules) : Has(Queried, f) /\ reMatch(otherRules.val[f], Queried[f])
    /\ ~TokenRulesPass(Queried)
    /\ HasAnalysisRules
    /\ Has(Queried, "analysis")
    /\ \E k \in 1..Len(Queried["analysis"]) : EntrySatisfies(Queried["analysis"][k])
    /\ last.out.ret = FALSE

\* C3 as stated: with an analysis-scoped rule registered, matches and
\* matchingAnalyses fail on every token that lacks "analysis", whatever the
\* token-scoped rules are.
C3_MissingAnalysisAlwaysFails ==
    (/\ last.op \in {"matches", "matchingAnalyses"}
     /\ HasAnalysisRules
     /\ ~Has(Queried, "analysis"))
    => (~last.out.ok /\ last.out.err = "AssertionError")

\* C3 amended: with an analysis-scoped rule registered, matches and
\* matchingAnalyses fail on a token that lacks "analysis" exactly when the
\* token-scoped rules (if any) all pass; when one of them fails the calls
\* return FALSE and the empty list.
C3_MissingAnalysis ==
    (/\ last.op \in {"matches", "matchingAnalyses"}
     /\ HasAnalysisRules
     /\ ~Has(Queried, "analysis"))
    => IF TokenRulesPass(Queried)
       THEN ~last.out.ok /\ last.out.err = "AssertionError"
       ELSE /\ last.out.ok
            /\ last.op = "matches" => last.out.ret = FALSE
            /\ last.op = "matchingAnalyses" => last.out.ret = << >>

\* matchingAnalyses fails on a token without "analysis" whose token-scoped
\* rule passes
C3_Witness ==
    /\ last.op = "matchingAnalyses"
    /\ HasAnalysisRules
    /\ HasTokenRules
    /\ TokenRulesPass(Queried)
    /\ ~Has(Queried, "analysis")
    /\ ~last.out.ok

\* the analysis entries of a token, none when the token has no "analysis"
EntriesOf(tok) == IF Has(tok, "analysis") THEN tok["analysis"] ELSE << >>

\* C4 as stated: for every token, matchingAnalyses returns the empty list
\* when a token-scoped rule fails; otherwise, with analysis-scoped rules,
\* the satisfying analysis entries in order; and without analysis-scoped
\* rules the empty list, although matches returns TRUE when the
\* token-scoped rules (there being some) pass.
C4_AlwaysReturns ==
    last.op = "matchingAnalyses" =>
        IF ~TokenRulesPass(Queried)
        THEN last.out.ok /\ last.out.ret = << >>
        ELSE IF HasAnalysisRules
             THEN /\ last.out.ok
                  /\ last.out.ret = SelectSeq(EntriesOf(Queried), EntrySatisfies)
             ELSE /\ last.out.ok
                  /\ last.out.ret = << >>
                  /\ HasTokenRules =>
                        matches(analysisRules, otherRules, Queried) = Returned(TRUE)

\* C4 amended: as stated, but the second case only for a token that
\* carries "analysis"; for a token without it the call fails there.
C4_MatchingAnalyses ==
    last.op = "matchingAnalyses" =>
        IF ~TokenRulesPass(Queried)
        THEN last.out.ok /\ last.out.ret = << >>
        ELSE IF HasAnalysisRules
             THEN IF Has(Queried, "analysis")
                  THEN /\ last.out.ok
                       /\ last.out.ret = SelectSeq(Queried["analysis"], EntrySatisfies)
                  ELSE ~last.out.ok /\ last.out.err = "AssertionError"
             ELSE /\ last.out.ok
                  /\ last.out.ret = << >>
                  /\ HasTokenRules =>
                        matches(analysisRules, otherRules, Queried) = Returned(TRUE)

\* equal analyses are both returned, the token-scoped rule passing
C4_Witness ==
    /\ last.op = "matchingAnalyses"
    /\ HasTokenRules
    /\ Len(analysisRules.keys) = 2
    /\ Has(Queried, "analysis")
    /\ Len(Queried["analysis"]) = 2
    /\ Queried["analysis"][1] = Queried["analysis"][2]
    /\ Len(last.out.ret) = 2

\* C10: with an analysis-scoped rule registered and the token carrying
\* "analysis", matches returns TRUE iff matchingAnalyses returns a non-empty
\* list, and matchingAnalyseIndexes returns, for each matching analysis in
\* turn, the smallest zero-based position of an entry equal to it.
C10_Agreement ==
    (/\ last.op \in {"matches", "matchingAnalyses", "matchingAnalyseIndexes"}
     /\ HasAnalysisRules
     /\ Has(Queried, "analysis"))
    => LET m  == matches(analysisRules, otherRules, Queried)
           ma == matchingAnalyses(analysisRules, otherRules, Queried)
           entries == Queried["analysis"]
       IN /\ last.out.ok
          /\ last.op = "matches" => (ma.ok /\ last.out.ret = (Len(ma.ret) > 0))
          /\ last.op = "matchingAnalyses" => (m.ok /\ m.ret = (Len(last.out.ret) > 0))
          /\ last.op = "matchingAnalyseIndexes" =>
                /\ ma.ok
                /\ Len(last.out.ret) = Len(ma.ret)
                /\ \A j \in 1..Len(ma.ret) :
                      /\ last.out.ret[j] \in 0..(Len(entries) - 1)
                      /\ entries[last.out.ret[j] + 1] = ma.ret[j]
                      /\ \A p \in 1..last.out.ret[j] : entries[p] # ma.ret[j]

\* two equal analyses match: both indexes are the first position
C10_Witness ==
    /\ last.op = "matchingAnalyseIndexes"
    /\ Len(analysisRules.keys) = 2
    /\ Has(Queried, "analysis")
    /\ last.out.ok
    /\ last.out.ret = <<0, 0>>

(***************************************************************************)
(* Properties of the sequence queries (SpecSeq)                            *)
(***************************************************************************)
\* C6: when the sequence queries succeed, matchingPositions holds, in
\* strictly increasing order, exactly the zero-based positions of the
\* tokens that matches() accepts, matchingTokens has the same length, and
\* its j-th token is the token at the j-th position.
C6_SequenceQueries ==
    (last.op \in {"matchingPositions", "matchingTokens"} /\ last.out.ok)
    => LET posOut == matchingPositions(analysisRules, otherRules, tokenArray)
           tokOut == matchingTokens(analysisRules, otherRules, tokenArray)
           pos == IF last.op = "matchingPositions" THEN last.out.ret ELSE posOut.ret
           tok == IF last.op = "matchingTokens" THEN last.out.ret ELSE tokOut.ret
       IN /\ posOut.ok /\ tokOut.ok
          /\ Len(pos) = Len(tok)
          /\ \A j \in 1..Len(pos) : pos[j] \in 0..(Len(tokenArray) - 1)
          /\ \A j \in 1..(Len(pos) - 1) : pos[j] < pos[j + 1]
          /\ \A j \in 1..Len(pos) : tokenArray[pos[j] + 1] = tok[j]
          /\ \A i \in 1..Len(tokenArray) :
                (matches(analysisRules, otherRules, tokenArray[i]) = Returned(TRUE))
                   <=> (\E j \in 1..Len(pos) : pos[j] = i - 1)

\* the first and the third of three tokens match, the second does not
C6_Witness ==
    /\ last.op = "matchingPositions"
    /\ last.out.ok
    /\ HasAnalysisRules
    /\ HasTokenRules
    /\ Len(tokenArray) = 3
    /\ last.out.ret = <<0, 2>>

====
